---- MODULE Spec2Model ----
(***************************************************************************)
(* The recursive-descent JSON parser of src/parser.rs as a state machine.  *)
(*                                                                         *)
(* The token stream is produced first (Lex), then parse runs on it.  The   *)
(* Rust call stack is explicit: one frame per active call of parse, value, *)
(* object, array, key_value_pair and for_each_comma, each with its local   *)
(* variables and a pc that says whether the call it makes has returned.    *)
(* Indices are the 0-based indices of the source; tokens.get(i) is         *)
(* tokens[i + 1] here.  A reference to a token (&Token) is its index.      *)
(***************************************************************************)
EXTENDS Integers, Sequences, FiniteSets, TLC

\* Bounds of the enumerated inputs.
MaxTokens == 6     \* tokens of the document proper
MaxGap == 1        \* blanks in front of a comma
MaxKeyTokens == 9  \* tokens of the document proper, over KeyTokenTypes

VARIABLES
    tokens,     \* the token stream handed to parse
    scan,       \* where the stream stands in the JSON grammar (see Scan)
    stack,      \* the call stack, innermost call last
    ret,        \* the value the last finished call returned
    result,     \* what parse returned, None while it has not
    history,    \* every return so far: [fn, start, ret]
    maxRead,    \* the largest index passed to tokens.get so far, -1 if none
    steps       \* the parser steps taken so far

vars == <<tokens, scan, stack, ret, result, history, maxRead, steps>>

----------------------------------------------------------------------------
\* Option, Result

None == [some |-> FALSE]
Some(x) == [some |-> TRUE, v |-> x]

Ok(x) == [ok |-> TRUE, v |-> x]
Err(e) == [ok |-> FALSE, e |-> e]

Max(a, b) == IF a >= b THEN a ELSE b

----------------------------------------------------------------------------
\* lexer::TokenType, and the token stream

Null == [tag |-> "Null"]
Bool(x) == [tag |-> "Bool", b |-> x]
Number(x) == [tag |-> "Number", n |-> x]
String(x) == [tag |-> "String", s |-> x]
Colon == [tag |-> "Colon"]
Comma == [tag |-> "Comma"]
OpenCurly == [tag |-> "OpenCurly"]
CloseCurly == [tag |-> "CloseCurly"]
OpenSquare == [tag |-> "OpenSquare"]
CloseSquare == [tag |-> "CloseSquare"]

\* The token types of the enumerated inputs.
TokenTypes ==
    { Null, Bool(TRUE), Number(1), String("a"), String("b"),
      Colon, Comma, OpenCurly, CloseCurly, OpenSquare, CloseSquare }

\* A smaller choice, for streams long enough to hold two members of an object.
KeyTokenTypes ==
    { Number(1), String("a"), Colon, Comma,
      OpenCurly, CloseCurly, OpenSquare, CloseSquare }

\* Characters of a token's text: null, true, 1, "a", and one for punctuation.
Width(token_type) ==
    CASE token_type.tag \in {"Null", "Bool"} -> 4
      [] token_type.tag = "String" -> 3
      [] OTHER -> 1

Token(token_type, col) == [token_type |-> token_type, col |-> col]

\* tokens.get(i)
get(toks, i) == IF i >= 0 /\ i < Len(toks) THEN Some(i) ELSE None

TypeAt(toks, i) == toks[i + 1].token_type

----------------------------------------------------------------------------
\* Json, ParseError, ParseContext

JsonNull == [json |-> "Null"]
JsonBool(x) == [json |-> "Bool", b |-> x]
JsonNumber(x) == [json |-> "Number", n |-> x]
JsonString(x) == [json |-> "String", s |-> x]
JsonObject(map) == [json |-> "Object", map |-> map]
JsonArray(vec) == [json |-> "Array", vec |-> vec]

ParseErrorType ==
    { "UnexpectedEnd", "UnexpectedToken", "DuplicateKey", "TrailingComma",
      "KeyNotInQuotes", "MissingColon" }

ParseError(error_type, token, expected) ==
    [error_type |-> error_type, token |-> token, expected |-> expected]

\* ParseContext::new as it would be with the cursor left on the last token
\* consumed.
ParseContext_new_at_last(value_, next) ==
    [key |-> "", value |-> value_, next |-> next - 1]

ParseContext_new(value_, next) == [key |-> "", value |-> value_, next |-> next]

ParseContext_key_value_pair(key, value_, next) ==
    [key |-> key, value |-> value_, next |-> next]

\* HashMap::new and HashMap::insert: the old value if the key was present, and
\* the map with the key bound to the new value either way.
HashMap_new == [k \in {} |-> JsonNull]

HashMap_insert(map, key, value_) ==
    [old |-> IF key \in DOMAIN map THEN Some(map[key]) ELSE None,
     map |-> [k \in (DOMAIN map) \cup {key} |-> IF k = key THEN value_ ELSE map[k]]]

----------------------------------------------------------------------------
\* The pure helpers of the parser

\* expect as it would be with the error kind fixed instead of the caller's.
expect_fixed_kind(token_type, error_type, toks, i) ==
    IF get(toks, i).some
    THEN IF TypeAt(toks, i) = token_type
         THEN Ok(i)
         ELSE Err(ParseError("UnexpectedToken", Some(i), Some(token_type)))
    ELSE Err(ParseError("UnexpectedEnd", None, None))

\* expect: the token at i if it has the type asked for.
expect(token_type, error_type, toks, i) ==
    IF get(toks, i).some
    THEN IF TypeAt(toks, i) = token_type
         THEN Ok(i)
         ELSE Err(ParseError(error_type, Some(i), Some(token_type)))
    ELSE Err(ParseError("UnexpectedEnd", None, None))

\* check_trailing_comma: the column of the last comma against the cursor.
check_trailing_comma(toks, last_comma, i) ==
    IF last_comma.some
    THEN IF toks[last_comma.v + 1].col = i + 1
         THEN Err(ParseError("TrailingComma", last_comma, None))
         ELSE Ok(i)
    ELSE Ok(i)

\* expect_key: the text of the String token at i.
expect_key(toks, i) ==
    IF get(toks, i).some
    THEN IF TypeAt(toks, i).tag = "String"
         THEN Ok(TypeAt(toks, i).s)
         ELSE Err(ParseError("KeyNotInQuotes", Some(i), None))
    ELSE Err(ParseError("UnexpectedEnd", None, None))

\* The closure array hands to for_each_comma: push onto the caller's vector.
array_builder(frame, parse_context, token) ==
    [frame |-> [frame EXCEPT !.array = Append(@, parse_context.value)],
     res |-> Ok(TRUE)]

\* The closure object hands to for_each_comma: insert into the caller's map,
\* an error if the key was there already.
object_builder(frame, parse_context, token) ==
    LET ins == HashMap_insert(frame.object, parse_context.key, parse_context.value)
    IN  [frame |-> [frame EXCEPT !.object = ins.map],
         res |-> IF ins.old.some
                 THEN Err(ParseError("DuplicateKey", token, None))
                 ELSE Ok(TRUE)]

----------------------------------------------------------------------------
\* The machine: a configuration is the call stack and the registers.

Config(stack_, ret_, result_, history_, maxRead_, steps_) ==
    [stack |-> stack_, ret |-> ret_, result |-> result_,
     history |-> history_, maxRead |-> maxRead_, steps |-> steps_]

InitConfig == Config(<<>>, None, None, <<>>, -1, 0)

Top(c) == c.stack[Len(c.stack)]

\* tokens.get(i) was evaluated.
Read(c, i) == [c EXCEPT !.maxRead = Max(@, i)]

\* The running call becomes frame and calls callee.
Call(c, frame, callee) ==
    [c EXCEPT !.stack = Append([@ EXCEPT ![Len(@)] = frame], callee)]

\* The running call returns r to its caller.
Return(c, r) ==
    [c EXCEPT !.stack = SubSeq(@, 1, Len(@) - 1),
              !.ret = r,
              !.history = Append(@, [fn |-> Top(c).fn, start |-> Top(c).start,
                                     ret |-> r])]

Frame(fn, start) ==
    CASE fn = "value" -> [fn |-> fn, pc |-> "begin", start |-> start]
      [] fn = "key_value_pair" ->
            [fn |-> fn, pc |-> "begin", start |-> start, key |-> ""]
      [] fn = "object" ->
            [fn |-> fn, pc |-> "begin", start |-> start, object |-> HashMap_new]
      [] fn = "array" ->
            [fn |-> fn, pc |-> "begin", start |-> start, array |-> <<>>]
      [] fn = "for_each_comma" ->
            [fn |-> fn, pc |-> "loop", start |-> start, getter |-> "",
             i |-> start, last_comma |-> None]
      [] fn = "parse" -> [fn |-> fn, pc |-> "begin", start |-> start]

\* for_each_comma.  At "loop" it calls the getter at i; at "match" the getter
\* has returned: the builder takes the element, the cursor moves past it and
\* past a comma, and the loop goes round, or the loop ends.
for_each_comma(toks, c) ==
    LET f == Top(c)
        n == Len(c.stack)
    IN  IF f.pc = "loop"
        THEN Call(c, [f EXCEPT !.pc = "match"], Frame(f.getter, f.i))
        ELSE IF c.ret.ok
        THEN LET parse_context == c.ret.v
                 next == parse_context.next
                 caller == c.stack[n - 1]
                 built == IF caller.fn = "array"
                          THEN array_builder(caller, parse_context, get(toks, f.i))
                          ELSE object_builder(caller, parse_context, get(toks, f.i))
                 c1 == [Read(c, f.i) EXCEPT !.stack[n - 1] = built.frame]
             IN  IF ~built.res.ok
                 THEN Return(c1, Err(built.res.e))
                 ELSE LET comma == expect(Comma, "UnexpectedToken", toks, next)
                          c2 == Read(c1, next)
                      IN  IF comma.ok
                          THEN LET g == [f EXCEPT !.i = next + 1,
                                                  !.last_comma = Some(comma.v)]
                               IN  Call(c2, [g EXCEPT !.pc = "match"],
                                        Frame(g.getter, g.i))
                          ELSE Return(c2, check_trailing_comma(toks, f.last_comma, next))
        ELSE IF c.ret.e.error_type = "UnexpectedToken"
             THEN Return(c, check_trailing_comma(toks, f.last_comma, f.i))
             ELSE Return(c, Err(c.ret.e))

\* key_value_pair as it would be with the value parsed at start.
key_value_pair_at_start(toks, c) ==
    LET f == Top(c)
    IN  IF f.pc = "begin"
        THEN LET key == expect_key(toks, f.start)
                 c1 == Read(c, f.start)
             IN  IF ~key.ok
                 THEN Return(c1, Err(key.e))
                 ELSE LET colon == expect(Colon, "MissingColon", toks, f.start + 1)
                          c2 == Read(c1, f.start + 1)
                      IN  IF ~colon.ok
                          THEN Return(c2, Err(colon.e))
                          ELSE Call(c2, [f EXCEPT !.pc = "ret", !.key = key.v],
                                    Frame("value", f.start))
        ELSE IF ~c.ret.ok
             THEN Return(c, Err(c.ret.e))
             ELSE Return(c, Ok(ParseContext_key_value_pair(
                                  f.key, c.ret.v.value, c.ret.v.next)))

\* key_value_pair: the key, the colon, then the value at start + 2.
key_value_pair(toks, c) ==
    LET f == Top(c)
    IN  IF f.pc = "begin"
        THEN LET key == expect_key(toks, f.start)
                 c1 == Read(c, f.start)
             IN  IF ~key.ok
                 THEN Return(c1, Err(key.e))
                 ELSE LET colon == expect(Colon, "MissingColon", toks, f.start + 1)
                          c2 == Read(c1, f.start + 1)
                      IN  IF ~colon.ok
                          THEN Return(c2, Err(colon.e))
                          ELSE Call(c2, [f EXCEPT !.pc = "ret", !.key = key.v],
                                    Frame("value", f.start + 2))
        ELSE IF ~c.ret.ok
             THEN Return(c, Err(c.ret.e))
             ELSE Return(c, Ok(ParseContext_key_value_pair(
                                  f.key, c.ret.v.value, c.ret.v.next)))

\* object: for_each_comma over key_value_pair from start + 1, then the "}".
object(toks, c) ==
    LET f == Top(c)
    IN  IF f.pc = "begin"
        THEN for_each_comma(toks,
                 Call(c, [f EXCEPT !.pc = "ret"],
                      [Frame("for_each_comma", f.start + 1)
                          EXCEPT !.getter = "key_value_pair"]))
        ELSE IF ~c.ret.ok
             THEN Return(c, Err(c.ret.e))
             ELSE LET i == c.ret.v
                      close == expect(CloseCurly, "UnexpectedToken", toks, i)
                      c1 == Read(c, i)
                  IN  IF close.ok
                      THEN Return(c1, Ok(ParseContext_new(JsonObject(f.object), i + 1)))
                      ELSE Return(c1, Err(close.e))

\* array: for_each_comma over value from start + 1, then the "]".
array(toks, c) ==
    LET f == Top(c)
    IN  IF f.pc = "begin"
        THEN for_each_comma(toks,
                 Call(c, [f EXCEPT !.pc = "ret"],
                      [Frame("for_each_comma", f.start + 1)
                          EXCEPT !.getter = "value"]))
        ELSE IF ~c.ret.ok
             THEN Return(c, Err(c.ret.e))
             ELSE LET i == c.ret.v
                      close == expect(CloseSquare, "UnexpectedToken", toks, i)
                      c1 == Read(c, i)
                  IN  IF close.ok
                      THEN Return(c1, Ok(ParseContext_new(JsonArray(f.array), i + 1)))
                      ELSE Return(c1, Err(close.e))

\* value: a leaf returns at once; "{" and "[" go to object and array at the
\* same index, and value returns what they return.
value(toks, c) ==
    LET f == Top(c)
    IN  IF f.pc = "begin"
        THEN LET start_token == get(toks, f.start)
                 c1 == Read(c, f.start)
             IN  IF ~start_token.some
                 THEN Return(c1, Err(ParseError("UnexpectedEnd", None, None)))
                 ELSE LET tt == TypeAt(toks, f.start)
                      IN  CASE tt.tag = "Null" ->
                                 Return(c1, Ok(ParseContext_new(JsonNull, f.start + 1)))
                            [] tt.tag = "Bool" ->
                                 Return(c1, Ok(ParseContext_new(JsonBool(tt.b), f.start + 1)))
                            [] tt.tag = "Number" ->
                                 Return(c1, Ok(ParseContext_new(JsonNumber(tt.n), f.start + 1)))
                            [] tt.tag = "String" ->
                                 Return(c1, Ok(ParseContext_new(JsonString(tt.s), f.start + 1)))
                            [] tt.tag = "OpenCurly" ->
                                 object(toks, Call(c1, [f EXCEPT !.pc = "ret"],
                                                   Frame("object", f.start)))
                            [] tt.tag = "OpenSquare" ->
                                 array(toks, Call(c1, [f EXCEPT !.pc = "ret"],
                                                  Frame("array", f.start)))
                            [] OTHER ->
                                 Return(c1, Err(ParseError("UnexpectedToken",
                                                           start_token, None)))
        ELSE Return(c, c.ret)

\* parse as it would be if it took the whole stream to be the document.
parse_whole_stream(toks, c) ==
    IF c.stack = <<>>
    THEN [c EXCEPT !.stack = <<[Frame("parse", 0) EXCEPT !.pc = "ret"],
                               Frame("value", 0)>>]
    ELSE [c EXCEPT !.stack = <<>>,
                   !.result =
                       Some(IF ~c.ret.ok THEN Err(c.ret.e)
                            ELSE IF c.ret.v.next < Len(toks)
                            THEN Err(ParseError("UnexpectedToken",
                                                Some(c.ret.v.next), None))
                            ELSE Ok(c.ret.v.value))]

\* parse: value at 0; its value or its error is the result.
parse(toks, c) ==
    IF c.stack = <<>>
    THEN [c EXCEPT !.stack = <<[Frame("parse", 0) EXCEPT !.pc = "ret"],
                               Frame("value", 0)>>]
    ELSE [c EXCEPT !.stack = <<>>,
                   !.result = Some(IF c.ret.ok THEN Ok(c.ret.v.value)
                                               ELSE Err(c.ret.e))]

\* One step of the machine: the innermost call runs to its next call or return.
Step(toks, c) ==
    LET c1 == [c EXCEPT !.steps = @ + 1]
    IN  IF c.stack = <<>> THEN parse(toks, c1)
        ELSE CASE Top(c).fn = "parse" -> parse(toks, c1)
               [] Top(c).fn = "value" -> value(toks, c1)
               [] Top(c).fn = "object" -> object(toks, c1)
               [] Top(c).fn = "array" -> array(toks, c1)
               [] Top(c).fn = "key_value_pair" -> key_value_pair(toks, c1)
               [] Top(c).fn = "for_each_comma" -> for_each_comma(toks, c1)

\* parse run to its end on a stream.
RECURSIVE Run(_, _)
Run(toks, c) == IF c.result.some THEN c ELSE Run(toks, Step(toks, c))

Parse(toks) == Run(toks, InitConfig)

----------------------------------------------------------------------------
\* The JSON grammar, read off the token types alone: what a stream is, apart
\* from what the parser makes of it.  mode says what may come next:
\*   "value"  a value (at the top, or after a colon)
\*   "elem0"  a value or "]" (after "[");  "elem"  a value (after a comma)
\*   "key0"   a key or "}" (after "{");    "key"   a key (after a comma)
\*   "colon"  a colon;  "sep"  a comma or the closing bracket
\*   "done"   the document is complete;  "bad"  the stream left the grammar
\* A closing bracket right after a comma is kept apart (strict = FALSE), and
\* so is a key that repeats a key of the same object (dup = TRUE).

ScanInit ==
    [open |-> <<>>, mode |-> "value", strict |-> TRUE, dup |-> FALSE, extra |-> 0]

Completed(s, open) ==
    [s EXCEPT !.open = open, !.mode = IF open = <<>> THEN "done" ELSE "sep"]

Popped(s) == SubSeq(s.open, 1, Len(s.open) - 1)

ScanStep(s, tt) ==
    LET tag == tt.tag
        top == s.open[Len(s.open)]
    IN  CASE s.mode = "bad" -> s
          [] s.mode = "done" -> [s EXCEPT !.extra = @ + 1]
          [] s.mode \in {"value", "elem0", "elem"} ->
                IF tag \in {"Null", "Bool", "Number", "String"}
                THEN Completed(s, s.open)
                ELSE IF tag = "OpenSquare"
                THEN [s EXCEPT !.open = Append(@, [kind |-> "array", keys |-> {}]),
                               !.mode = "elem0"]
                ELSE IF tag = "OpenCurly"
                THEN [s EXCEPT !.open = Append(@, [kind |-> "object", keys |-> {}]),
                               !.mode = "key0"]
                ELSE IF tag = "CloseSquare" /\ s.mode # "value"
                THEN Completed([s EXCEPT !.strict = @ /\ s.mode = "elem0"], Popped(s))
                ELSE [s EXCEPT !.mode = "bad"]
          [] s.mode \in {"key0", "key"} ->
                IF tag = "String"
                THEN [s EXCEPT !.mode = "colon",
                               !.dup = @ \/ tt.s \in top.keys,
                               !.open[Len(s.open)].keys = @ \cup {tt.s}]
                ELSE IF tag = "CloseCurly"
                THEN Completed([s EXCEPT !.strict = @ /\ s.mode = "key0"], Popped(s))
                ELSE [s EXCEPT !.mode = "bad"]
          [] s.mode = "colon" ->
                IF tag = "Colon" THEN [s EXCEPT !.mode = "value"]
                                 ELSE [s EXCEPT !.mode = "bad"]
          [] s.mode = "sep" ->
                IF tag = "Comma"
                THEN [s EXCEPT !.mode = IF top.kind = "array" THEN "elem" ELSE "key"]
                ELSE IF tag = "CloseSquare" /\ top.kind = "array"
                THEN Completed(s, Popped(s))
                ELSE IF tag = "CloseCurly" /\ top.kind = "object"
                THEN Completed(s, Popped(s))
                ELSE [s EXCEPT !.mode = "bad"]

RECURSIVE ScanFrom(_, _, _)
ScanFrom(s, toks, k) ==
    IF k > Len(toks) THEN s
    ELSE ScanFrom(ScanStep(s, toks[k].token_type), toks, k + 1)

Scan(toks) == ScanFrom(ScanInit, toks, 1)

\* Exactly one well-formed document: complete, no comma before a closing
\* bracket, no repeated key, nothing after it.
WellFormed(toks) ==
    LET s == Scan(toks)
    IN  s.mode = "done" /\ s.strict /\ ~s.dup /\ s.extra = 0

\* A well-formed document cut short: every token fits, the stream just ends.
CutShort(toks) ==
    LET s == Scan(toks)
    IN  s.mode \notin {"done", "bad"} /\ s.strict /\ ~s.dup

----------------------------------------------------------------------------
\* The state machine

Cfg == Config(stack, ret, result, history, maxRead, steps)

Apply(config) ==
    LET c == config
    IN
    /\ stack' = c.stack
    /\ ret' = c.ret
    /\ result' = c.result
    /\ history' = c.history
    /\ maxRead' = c.maxRead
    /\ steps' = c.steps

Tick(c) == [c EXCEPT !.steps = @ + 1]

\* The function of the innermost call, "" when nothing is running.
TopFn == IF stack = <<>> THEN "" ELSE stack[Len(stack)].fn

Started == steps > 0
Done == result.some
Running == Started /\ ~Done

Init ==
    /\ tokens = <<>>
    /\ scan = ScanInit
    /\ stack = <<>>
    /\ ret = None
    /\ result = None
    /\ history = <<>>
    /\ maxRead = -1
    /\ steps = 0

\* The column of the next token: the text so far, and gap blanks.
NextCol(toks, gap) ==
    IF toks = <<>> THEN gap
    ELSE toks[Len(toks)].col + Width(toks[Len(toks)].token_type) + gap

\* The lexer hands over one more token.  The streams enumerated are the
\* documents of the grammar and their prefixes, each with at most one token
\* that does not fit as its last, and complete documents with one token after
\* them; blanks are put in front of commas only (their column is the only one
\* the parser reads).
Lex(token_type, gap, max) ==
    /\ ~Started
    /\ scan.mode # "bad"
    /\ scan.mode = "done" => scan.extra = 0
    /\ scan.mode # "done" => Len(tokens) < max
    /\ gap > 0 => token_type = Comma
    /\ tokens' = Append(tokens, Token(token_type, NextCol(tokens, gap)))
    /\ scan' = ScanStep(scan, token_type)
    /\ UNCHANGED <<stack, ret, result, history, maxRead, steps>>

ParseStep ==
    /\ ~Done
    /\ TopFn \in {"", "parse"}
    /\ Apply(parse(tokens, Tick(Cfg)))
    /\ UNCHANGED <<tokens, scan>>

ValueStep ==
    /\ TopFn = "value"
    /\ Apply(value(tokens, Tick(Cfg)))
    /\ UNCHANGED <<tokens, scan>>

ObjectStep ==
    /\ TopFn = "object"
    /\ Apply(object(tokens, Tick(Cfg)))
    /\ UNCHANGED <<tokens, scan>>

ArrayStep ==
    /\ TopFn = "array"
    /\ Apply(array(tokens, Tick(Cfg)))
    /\ UNCHANGED <<tokens, scan>>

KeyValuePairStep ==
    /\ TopFn = "key_value_pair"
    /\ Apply(key_value_pair(tokens, Tick(Cfg)))
    /\ UNCHANGED <<tokens, scan>>

ForEachCommaStep ==
    /\ TopFn = "for_each_comma"
    /\ Apply(for_each_comma(tokens, Tick(Cfg)))
    /\ UNCHANGED <<tokens, scan>>

ParserNext ==
    \/ ParseStep
    \/ ValueStep
    \/ ObjectStep
    \/ ArrayStep
    \/ KeyValuePairStep
    \/ ForEachCommaStep

Next ==
    \/ \E token_type \in TokenTypes, gap \in 0..MaxGap :
          Lex(token_type, gap, MaxTokens)
    \/ ParserNext

Spec == Init /\ [][Next]_vars

\* The same machine on longer streams over fewer token types, without blanks.
NextKeys ==
    \/ \E token_type \in KeyTokenTypes : Lex(token_type, 0, MaxKeyTokens)
    \/ ParserNext

SpecKeys == Init /\ [][NextKeys]_vars

----------------------------------------------------------------------------
\* What the grammar says a well-formed document denotes: the elements of an
\* array in their order, the members of an object by key.

RECURSIVE RefValue(_, _), RefElements(_, _, _), RefMembers(_, _, _)
RefValue(toks, i) ==
    LET tt == TypeAt(toks, i)
    IN  CASE tt.tag = "Null" -> [value |-> JsonNull, next |-> i + 1]
          [] tt.tag = "Bool" -> [value |-> JsonBool(tt.b), next |-> i + 1]
          [] tt.tag = "Number" -> [value |-> JsonNumber(tt.n), next |-> i + 1]
          [] tt.tag = "String" -> [value |-> JsonString(tt.s), next |-> i + 1]
          [] tt.tag = "OpenSquare" -> RefElements(toks, i + 1, <<>>)
          [] tt.tag = "OpenCurly" -> RefMembers(toks, i + 1, HashMap_new)
RefElements(toks, i, vec) ==
    CASE TypeAt(toks, i).tag = "CloseSquare" ->
            [value |-> JsonArray(vec), next |-> i + 1]
      [] TypeAt(toks, i).tag = "Comma" -> RefElements(toks, i + 1, vec)
      [] OTHER -> LET r == RefValue(toks, i)
                  IN  RefElements(toks, r.next, Append(vec, r.value))
RefMembers(toks, i, map) ==
    CASE TypeAt(toks, i).tag = "CloseCurly" ->
            [value |-> JsonObject(map), next |-> i + 1]
      [] TypeAt(toks, i).tag = "Comma" -> RefMembers(toks, i + 1, map)
      [] OTHER -> LET r == RefValue(toks, i + 2)
                  IN  RefMembers(toks, r.next,
                                 [k \in (DOMAIN map) \cup {TypeAt(toks, i).s} |->
                                     IF k = TypeAt(toks, i).s THEN r.value ELSE map[k]])

RefDocument(toks) == RefValue(toks, 0).value

\* The stream with g more blanks in front of its k-th token (k from 1).
Shift(toks, k, g) ==
    [j \in 1..Len(toks) |->
        IF j >= k THEN [toks[j] EXCEPT !.col = @ + g] ELSE toks[j]]

Indices(toks) == 0..(Len(toks) - 1)

\* The returns so far of the four recursive functions.
Returns ==
    { k \in 1..Len(history) :
        history[k].fn \in {"value", "array", "object", "key_value_pair"} }

----------------------------------------------------------------------------
\* C1.  A stream that is exactly one well-formed JSON document parses to Ok,
\* and the value has the document's array elements in order and its object
\* members by key; the empty array and the empty object included.
C1_WellFormedParses ==
    (Done /\ WellFormed(tokens)) => result.v = Ok(RefDocument(tokens))

\* for_each_comma has consumed the comma at j and called the getter at j + 1
\* on the closing bracket of its list.  (A getter called right after a comma
\* is always for_each_comma's: key_value_pair calls value after a colon,
\* parse at 0.)
ConsumedTrailingComma(j) ==
    /\ j + 1 < Len(tokens)
    /\ TypeAt(tokens, j) = Comma
    /\ \E k \in Returns :
          /\ history[k].start = j + 1
          /\ \/ history[k].fn = "value" /\ TypeAt(tokens, j + 1) = CloseSquare
             \/ history[k].fn = "key_value_pair" /\ TypeAt(tokens, j + 1) = CloseCurly

\* C2.  When the comma-list iteration of an array or an object has consumed a
\* comma and the next token is the list's closing bracket, parse fails with
\* TrailingComma carrying that comma and no expected type.
C2_TrailingCommaReported ==
    Done => \A j \in Indices(tokens) :
                ConsumedTrailingComma(j) =>
                    result.v = Err(ParseError("TrailingComma", Some(j), None))

\* The most blanks put in front of one token.
MaxShift == 2

\* C3.  Blanks put in front of any token change nothing: the same Ok value,
\* or the same error kind at the same token index with the same expected type.
C3_PositionsIrrelevant ==
    Done => \A k \in 1..Len(tokens), g \in 1..MaxShift :
                Parse(Shift(tokens, k, g)).result.v = result.v

\* j is the index of the second of two equal keys of one object: up to it the
\* stream is in the grammar with no earlier repeat, and the member the key
\* begins is complete somewhere after it.
SecondKeyAt(j) ==
    LET before == Scan(SubSeq(tokens, 1, j))
        at == Scan(SubSeq(tokens, 1, j + 1))
    IN  /\ before.mode = "key" /\ before.strict /\ ~before.dup
        /\ at.mode = "colon" /\ at.dup
        /\ \E e \in (j + 3)..Len(tokens) :
              LET after == Scan(SubSeq(tokens, 1, e))
              IN  /\ after.mode = "sep" /\ after.strict
                  /\ Len(after.open) = Len(before.open)

\* C4.  An object with two members of the same key, the members before the
\* second and the second itself well formed, fails with DuplicateKey carrying
\* the String token of the second key and no expected type.
C4_DuplicateKeyReported ==
    Done => \A j \in Indices(tokens) :
                SecondKeyAt(j) =>
                    result.v = Err(ParseError("DuplicateKey", Some(j), None))

\* The getter of an array finding, right after "[" or a comma, a token that
\* starts no value: how a list ends, not an error raised.
EndOfListProbe(e) ==
    /\ e.fn = "value"
    /\ e.start > 0
    /\ e.ret.e = ParseError("UnexpectedToken", Some(e.start), None)
    /\ TypeAt(tokens, e.start - 1) \in {OpenSquare, Comma}

Raised == { k \in Returns : ~history[k].ret.ok /\ ~EndOfListProbe(history[k]) }

FirstRaised == history[CHOOSE k \in Raised : \A m \in Raised : k <= m]

\* C5.  The first error a call of value, array, object or key_value_pair
\* returns is the error parse returns: same kind, same token, same expected
\* type.  Read in the claim's favour, the end-of-list probe is no error.
C5_FirstErrorReturned ==
    (Done /\ Raised # {}) => result.v = Err(FirstRaised.ret.e)

\* C6.  Tokens after the first complete value are never read and change
\* nothing: when parse returns Ok and the top-level value ended at n, no index
\* from n on was passed to tokens.get, and the first n tokens alone, or with
\* any one token after them, parse to the same Ok.
C6_TrailingTokensIgnored ==
    (Done /\ result.v.ok) =>
        LET n == ret.v.next
            document == SubSeq(tokens, 1, n)
        IN  /\ maxRead < n
            /\ Parse(document).result.v = result.v
            /\ Len(tokens) = n =>
                 \A token_type \in TokenTypes :
                    Parse(Append(tokens, Token(token_type, NextCol(tokens, 0)))).result.v
                        = result.v

C6_Witness ==
    /\ Done /\ result.v.ok
    /\ result.v.v.json = "Array"
    /\ Len(tokens) > ret.v.next

\* C7.  A stream that ends early, every token of it fitting the grammar (the
\* empty stream too), fails with UnexpectedEnd, no token, no expected type.
C7_CutShortIsUnexpectedEnd ==
    (Done /\ CutShort(tokens)) =>
        result.v = Err(ParseError("UnexpectedEnd", None, None))

\* key_value_pair was called at s, where a String token stands, and the token
\* after it exists and is no Colon.
KeyWithoutColon(s) ==
    /\ s + 1 < Len(tokens)
    /\ TypeAt(tokens, s).tag = "String"
    /\ TypeAt(tokens, s + 1) # Colon
    /\ \E k \in Returns :
          history[k].fn = "key_value_pair" /\ history[k].start = s

Recursive == {"value", "object", "array", "key_value_pair"}

CallerOf(k) ==
    LET below == { m \in 1..(k - 1) : stack[m].fn \in Recursive }
    IN  IF below = {} THEN 0 ELSE CHOOSE m \in below : \A x \in below : x <= m

\* A bound on the parser's steps, linear in the stream's length: a token
\* costs its value call and at most three returns (for_each_comma, the
\* container, value), and parse two steps and one value call at the very end.
StepBound == steps <= 4 * Len(tokens) + 3

\* A parse that has begun and not returned has a call to run.
CanStep == Running => TopFn \in Recursive \cup {"parse", "for_each_comma"}

\* A step of for_each_comma whose getter has returned leaves the loop (the
\* call returns) or goes round with a larger cursor.
LoopProgress ==
    TopFn = "for_each_comma" =>
        \/ Len(stack') < Len(stack)
        \/ stack'[Len(stack)].i > stack[Len(stack)].i

\* Every call of the four is made at an index strictly larger than its
\* caller's start.
CallsAscend ==
    \A k \in 1..Len(stack) :
        (stack[k].fn \in Recursive /\ CallerOf(k) # 0) =>
            stack[k].start > stack[CallerOf(k)].start

\* The same, except that value hands "{" and "[" to object and array at its
\* own start index.
CallsAscendButDispatch ==
    \A k \in 1..Len(stack) :
        (stack[k].fn \in Recursive /\ CallerOf(k) # 0) =>
            IF stack[CallerOf(k)].fn = "value"
            THEN /\ stack[k].fn \in {"object", "array"}
                 /\ stack[k].start = stack[CallerOf(k)].start
            ELSE stack[k].start > stack[CallerOf(k)].start

RECURSIVE CloseOf(_, _, _)
CloseOf(toks, k, depth) ==
    IF k >= Len(toks) THEN -1
    ELSE IF TypeAt(toks, k) \in {OpenSquare, OpenCurly}
    THEN CloseOf(toks, k + 1, depth + 1)
    ELSE IF TypeAt(toks, k) \in {CloseSquare, CloseCurly}
    THEN IF depth = 0 THEN k ELSE CloseOf(toks, k + 1, depth - 1)
    ELSE CloseOf(toks, k + 1, depth)

MatchingClose(toks, o) == CloseOf(toks, o + 1, 0)

\* A successful return e of one of the four: start < next <= len; a leaf
\* returns start + 1; an array or object returns the index after the
\* CloseSquare or CloseCurly that matches the bracket at start.
CursorOk(e) ==
    LET next == e.ret.v.next
        tt == TypeAt(tokens, e.start)
    IN  /\ e.start < next
        /\ next <= Len(tokens)
        /\ (e.fn = "value" /\ tt.tag \in {"Null", "Bool", "Number", "String"})
              => next = e.start + 1
        /\ (e.fn \in {"value", "array"} /\ tt = OpenSquare)
              => /\ TypeAt(tokens, next - 1) = CloseSquare
                 /\ MatchingClose(tokens, e.start) = next - 1
        /\ (e.fn \in {"value", "object"} /\ tt = OpenCurly)
              => /\ TypeAt(tokens, next - 1) = CloseCurly
                 /\ MatchingClose(tokens, e.start) = next - 1

\* C10.  Every successful call of value, object, array or key_value_pair
\* keeps the cursor invariant: no next past the end of the stream, or at or
\* before the call's start.
C10_CursorInvariant ==
    \A k \in Returns : history[k].ret.ok => CursorOk(history[k])

C10_Witness ==
    /\ Done /\ result.v.ok
    /\ \E k \in Returns :
          /\ history[k].fn \in {"array", "object"}
          /\ history[k].ret.ok
          /\ history[k].start > 0
          /\ history[k].ret.v.next > history[k].start + 2

====
